---- MODULE Spec2Model ----
(***************************************************************************)
(* A model of the Sample abstraction of src/src/sample.rs (SineWave,       *)
(* WaveForm, MultiChannel, Composition and the provided trait methods) and *)
(* of the effects of src/src/effect.rs.                                    *)
(*                                                                         *)
(* A `dyn Sample` is a record tagged with the concrete type (`kind`) that  *)
(* holds the fields of the struct; the trait methods are operators that    *)
(* dispatch on the tag.  Option<Vec<f32>> is a record with a tag "Some" or *)
(* "None"; a call that panics (unwrap on None, index out of bounds,        *)
(* unwrap on Err) yields the tag "Panic".                                  *)
(*                                                                         *)
(* f32 sample values are small integers: every integer of magnitude below  *)
(* 2^24 is an f32 and the sums formed here stay far below that, so f32     *)
(* addition is exact on them and integer addition models it.               *)
(***************************************************************************)
EXTENDS Integers, Sequences, FiniteSets, TLC

VARIABLES
    comp,   \* a Composition (also `echo` of LinearFadeEcho::apply, and the A-then-B one)
    comp2,  \* a second Composition (the B-then-A one)
    mc,     \* a MultiChannel
    res,    \* the last call and what it returned
    args,   \* the arguments of the function under evaluation
    fade,   \* LinearFadeEcho::apply: local `fade`, an f32 in units of 2^-26
    delay,  \* LinearFadeEcho::apply: local `delay`
    pc      \* position in the function under evaluation

vars == <<comp, comp2, mc, res, args, fade, delay, pc>>

\* ------------------------------------------------------------------ bounds
MaxWaveLen == 1     \* longest leaf buffer
MaxStart == 1       \* largest start offset passed to add_track / add_track_id
MaxOps == 3         \* successful add_track / add_track_id calls on one Composition
MaxChannels == 2    \* channels appended to one MultiChannel
MaxIter == 6        \* loop iterations of LinearFadeEcho::apply that are followed

\* --------------------------------------------------------------- constants
RATE == 44100

\* ----------------------------------------------------------------- helpers
Max(a, b) == IF a > b THEN a ELSE b

Some(v) == [tag |-> "Some", v |-> v]
None == [tag |-> "None", v |-> <<>>]
Panic == [tag |-> "Panic", v |-> <<>>]

\* ------------------------------------------------------------ constructors
SineWave_new(frequency, len, amplitude) ==
    [kind |-> "SineWave", frequency |-> frequency, amplitude |-> amplitude,
     sample_rate |-> RATE, length |-> len]

WaveForm_from(w) ==
    [kind |-> "WaveForm", sample_rate |-> RATE, waveform |-> w]

MultiChannel_new ==
    [kind |-> "MultiChannel", sample_rate |-> 0, length |-> 0, channels |-> <<>>]

Composition_new ==
    [kind |-> "Composition", sample_rate |-> 0, length |-> 0, channels |-> 0,
     tracks |-> <<>>, starts |-> <<>>]

\* ------------------------------------------------------ trait Sample: queries
sample_rate(s) == s.sample_rate

length(s) == IF s.kind = "WaveForm" THEN Len(s.waveform) ELSE s.length

channels(s) ==
    CASE s.kind = "SineWave" -> 1
      [] s.kind = "WaveForm" -> 1
      [] s.kind = "MultiChannel" -> Len(s.channels)
      [] s.kind = "Composition" -> s.channels

box_clone(s) == s

\* amplitude * sin(2 PI frequency t) where it is zero: at amplitude 0 (the
\* tests' `silence`), at frequency 0 and at step 0.  No other sine value is
\* generated here.
SineValue(s, step) ==
    CASE s.amplitude = 0 -> 0
      [] s.frequency = 0 -> 0
      [] step = 0 -> 0

\* `waveform[t + start] += val`
AccumulateOverwrite(old, val) == val
Accumulate(old, val) == old + val

\* The loop `for (t, val) in track.iter().enumerate() { waveform[t + start] += val }`
\* on the buffer acc; an index t + start >= waveform.len() panics.
AddCopy(acc, track, start) ==
    IF acc.tag # "Some" THEN acc
    ELSE IF Len(track) > 0 /\ Len(track) + start > Len(acc.v) THEN Panic
    ELSE Some([j \in 1..Len(acc.v) |->
                 IF start < j /\ j <= start + Len(track)
                 THEN Accumulate(acc.v[j], track[j - start])
                 ELSE acc.v[j]])

\* `for start in &self.starts[id]`
RECURSIVE AddStarts(_, _, _, _)
AddStarts(acc, track, starts, i) ==
    IF i > Len(starts) THEN acc
    ELSE AddStarts(AddCopy(acc, track, starts[i]), track, starts, i + 1)

RECURSIVE waveform(_, _)
RECURSIVE MixTracks(_, _, _, _)

\* `for (id, track) in self.tracks.iter().enumerate()` with the unwrap of the
\* track's waveform
MixTracks(self, channel, id, acc) ==
    IF id > Len(self.tracks) \/ acc.tag # "Some" THEN acc
    ELSE LET track == waveform(self.tracks[id], channel) IN
         IF track.tag # "Some" THEN Panic
         ELSE MixTracks(self, channel, id + 1,
                        AddStarts(acc, track.v, self.starts[id], 1))

SineWave_waveform(self, channel) ==
    IF channel > 0 THEN None
    ELSE Some([step \in 1..self.length |-> SineValue(self, step - 1)])

WaveForm_waveform(self, channel) ==
    IF channel > 0 THEN None ELSE Some(self.waveform)

MultiChannel_waveform(self, channel) ==
    IF channel < Len(self.channels)
    THEN waveform(self.channels[channel + 1], 0)
    ELSE None

Composition_waveform(self, channel) ==
    IF channel >= self.channels THEN None
    ELSE MixTracks(self, channel, 1, Some([j \in 1..self.length |-> 0]))

waveform(s, channel) ==
    CASE s.kind = "SineWave" -> SineWave_waveform(s, channel)
      [] s.kind = "WaveForm" -> WaveForm_waveform(s, channel)
      [] s.kind = "MultiChannel" -> MultiChannel_waveform(s, channel)
      [] s.kind = "Composition" -> Composition_waveform(s, channel)

\* ------------------------------------------------------------ MultiChannel
\* Result<MultiChannel, Error>: ok, and the value (MultiChannel_new on Err)
MultiChannel_new_dual(left, right) ==
    IF length(left) # length(right) THEN [ok |-> FALSE, self |-> MultiChannel_new]
    ELSE IF sample_rate(left) # sample_rate(right)
    THEN [ok |-> FALSE, self |-> MultiChannel_new]
    ELSE IF channels(left) # 1 THEN [ok |-> FALSE, self |-> MultiChannel_new]
    ELSE IF channels(right) # 1 THEN [ok |-> FALSE, self |-> MultiChannel_new]
    ELSE [ok |-> TRUE,
          self |-> [kind |-> "MultiChannel", sample_rate |-> sample_rate(left),
                    length |-> length(left),
                    channels |-> <<box_clone(left), box_clone(right)>>]]

\* Result<(), Error> and self after the call
MultiChannel_add_channel(self, track) ==
    IF channels(track) > 1 THEN [ok |-> FALSE, self |-> self]
    ELSE IF Len(self.channels) = 0
    THEN [ok |-> TRUE,
          self |-> [self EXCEPT !.sample_rate = sample_rate(track),
                                !.length = length(track),
                                !.channels = Append(@, box_clone(track))]]
    ELSE IF self.sample_rate # sample_rate(track) THEN [ok |-> FALSE, self |-> self]
    ELSE IF self.length # length(track) THEN [ok |-> FALSE, self |-> self]
    ELSE [ok |-> TRUE, self |-> [self EXCEPT !.channels = Append(@, box_clone(track))]]

\* The file read by hound: the header's sample rate and channel count and the
\* interleaved samples; reader.duration() is the number of samples per channel.
Deinterleave(samples, nchan) ==
    [c \in 1..nchan |->
        [k \in 1..(Len(samples) \div nchan) |-> samples[(k - 1) * nchan + c]]]

MultiChannel_from_wav(file) ==
    LET waveforms == Deinterleave(file.samples, file.channels) IN
    [kind |-> "MultiChannel", sample_rate |-> file.sample_rate,
     length |-> Len(file.samples) \div file.channels,
     channels |-> [c \in 1..file.channels |-> WaveForm_from(waveforms[c])]]

\* ------------------------------------------------------------- Composition
\* Result<usize, Error>: ok, the id, and self after the call
Composition_add_track_NoMax(self, track, start) ==
    IF self.tracks # <<>> /\ (self.sample_rate # sample_rate(track)
                              \/ self.channels # channels(track))
    THEN [ok |-> FALSE, id |-> 0, self |-> self]
    ELSE [ok |-> TRUE, id |-> Len(self.tracks),
          self |-> [self EXCEPT !.sample_rate = sample_rate(track),
                                !.length = length(track) + start,
                                !.channels = channels(track),
                                !.tracks = Append(@, box_clone(track)),
                                !.starts = Append(@, <<start>>)]]

Composition_add_track_NoChannelCheck(self, track, start) ==
    IF self.tracks # <<>> /\ self.sample_rate # sample_rate(track)
    THEN [ok |-> FALSE, id |-> 0, self |-> self]
    ELSE [ok |-> TRUE, id |-> Len(self.tracks),
          self |-> [self EXCEPT !.sample_rate = IF self.tracks = <<>> THEN sample_rate(track) ELSE @,
                                !.channels = IF self.tracks = <<>> THEN channels(track) ELSE @,
                                !.length = IF self.tracks = <<>> THEN length(track) + start
                                           ELSE Max(@, length(track) + start),
                                !.tracks = Append(@, box_clone(track)),
                                !.starts = Append(@, <<start>>)]]

Composition_add_track(self, track, start) ==
    IF self.tracks = <<>>
    THEN [ok |-> TRUE, id |-> Len(self.tracks),
          self |-> [self EXCEPT !.sample_rate = sample_rate(track),
                                !.length = length(track) + start,
                                !.channels = channels(track),
                                !.tracks = Append(@, box_clone(track)),
                                !.starts = Append(@, <<start>>)]]
    ELSE IF self.sample_rate # sample_rate(track)
    THEN [ok |-> FALSE, id |-> 0, self |-> self]
    ELSE IF self.channels # channels(track)
    THEN [ok |-> FALSE, id |-> 0, self |-> self]
    ELSE [ok |-> TRUE, id |-> Len(self.tracks),
          self |-> [self EXCEPT !.length = Max(@, length(track) + start),
                                !.tracks = Append(@, box_clone(track)),
                                !.starts = Append(@, <<start>>)]]

Composition_add_track_id_StoredAgain(self, id, start) ==
    IF id >= Len(self.tracks) THEN [ok |-> FALSE, self |-> self]
    ELSE [ok |-> TRUE,
          self |-> [self EXCEPT !.length = Max(@, length(self.tracks[id + 1]) + start),
                                !.tracks = Append(@, box_clone(self.tracks[id + 1])),
                                !.starts = Append(@, <<start>>)]]

\* Result<(), Error> and self after the call; ids count from 0
Composition_add_track_id(self, id, start) ==
    IF id >= Len(self.tracks) THEN [ok |-> FALSE, self |-> self]
    ELSE [ok |-> TRUE,
          self |-> [self EXCEPT !.length = Max(@, length(self.tracks[id + 1]) + start),
                                !.starts[id + 1] = Append(@, start)]]

\* ------------------------------------------------------------------ inputs
Ramp(n) == [i \in 1..n |-> i]
Waveforms == {Ramp(n) : n \in 0..MaxWaveLen}
Silence == SineWave_new(440, MaxWaveLen, 0)
Leaves == {WaveForm_from(w) : w \in Waveforms}

\* a stereo pair, as in the tests' `left`
Stereo == MultiChannel_new_dual(WaveForm_from(Ramp(MaxWaveLen)), Silence).self
\* a mono file at another sample rate
Imported == MultiChannel_from_wav([sample_rate |-> 48000, channels |-> 1, samples |-> <<5>>])
\* a MultiChannel whose only channel is an empty MultiChannel
Hollow == MultiChannel_add_channel(MultiChannel_new, MultiChannel_new).self

\* a Composition used as a track of another
Nested == Composition_add_track(Composition_new, WaveForm_from(Ramp(1)), 1).self

TrackPool == Leaves \cup {Stereo, Imported, MultiChannel_new, Hollow, Nested}

Scheduled(c) ==
    LET RECURSIVE Count(_)
        Count(i) == IF i > Len(c.starts) THEN 0 ELSE Len(c.starts[i]) + Count(i + 1)
    IN Count(1)

\* ----------------------------------------------------------------- actions
NoRes == [op |-> "new", ok |-> TRUE, id |-> 0]

Init ==
    /\ comp = Composition_new
    /\ comp2 = Composition_new
    /\ mc = MultiChannel_new
    /\ res = NoRes
    /\ args = <<>>
    /\ fade = 0
    /\ delay = 0
    /\ pc = "idle"

add_track(track, start) ==
    /\ Scheduled(comp) < MaxOps
    /\ LET r == Composition_add_track(comp, track, start) IN
       /\ comp' = r.self
       /\ res' = [op |-> "add_track", ok |-> r.ok, id |-> r.id]
    /\ UNCHANGED <<comp2, mc, args, fade, delay, pc>>

add_track_id(id, start) ==
    /\ Scheduled(comp) < MaxOps
    /\ LET r == Composition_add_track_id(comp, id, start) IN
       /\ comp' = r.self
       /\ res' = [op |-> "add_track_id", ok |-> r.ok, id |-> IF r.ok THEN id ELSE 0]
    /\ UNCHANGED <<comp2, mc, args, fade, delay, pc>>

Next ==
    \/ \E track \in TrackPool, start \in 0..MaxStart : add_track(track, start)
    \/ \E id \in 0..MaxOps, start \in 0..MaxStart : add_track_id(id, start)

Spec == Init /\ [][Next]_vars

\* ------------------------------------------------- claims on the Composition
\* every (track, k) with k an index into the track's schedule
Pairs(c) == UNION {{<<id, k>> : k \in 1..Len(c.starts[id])} : id \in 1..Len(c.tracks)}

RECURSIVE SetMax(_)
SetMax(S) == IF S = {} THEN 0
             ELSE LET x == CHOOSE y \in S : TRUE IN Max(x, SetMax(S \ {x}))

MaxEnd(c) == SetMax({c.starts[p[1]][p[2]] + length(c.tracks[p[1]]) : p \in Pairs(c)})

\* C1: length() is the maximum of offset + track.length() over all scheduled
\* (track, offset) pairs, 0 when there is none; it never decreases.
C1_LengthIsMaxEnd ==
    /\ [](length(comp) = MaxEnd(comp))
    /\ [][length(comp') >= length(comp)]_vars

C1_Witness ==
    /\ res.op = "add_track_id" /\ res.ok
    /\ Len(comp.tracks) >= 2
    /\ \E p \in Pairs(comp) :
          comp.starts[p[1]][p[2]] + length(comp.tracks[p[1]]) < length(comp)

\* what the scheduled copy p of its track contributes to element j (from 1) of
\* the output of `channel`
Contribution(c, channel, p, j) ==
    LET start == c.starts[p[1]][p[2]]
        track == c.tracks[p[1]]
    IN IF start <= j - 1 /\ j - 1 < start + length(track)
       THEN waveform(track, channel).v[j - start]
       ELSE 0

RECURSIVE SumOver(_, _, _, _)
SumOver(c, channel, S, j) ==
    IF S = {} THEN 0
    ELSE LET p == CHOOSE q \in S : TRUE
         IN Contribution(c, channel, p, j) + SumOver(c, channel, S \ {p}, j)

IsSumOfCopies(c, channel) ==
    LET w == waveform(c, channel) IN
    /\ w.tag = "Some"
    /\ Len(w.v) = length(c)
    /\ \A id \in 1..Len(c.tracks) : waveform(c.tracks[id], channel).tag = "Some"
    /\ \A j \in 1..length(c) : w.v[j] = SumOver(c, channel, Pairs(c), j)

\* C2: for every channel below channels(), waveform(channel) has exactly length()
\* elements and element j is the sum of the scheduled copies covering j (0 where
\* none does).
C2_WaveformIsSumOfCopies ==
    \A channel \in 0..(channels(comp) - 1) : IsSumOfCopies(comp, channel)

\* The sum of C2 where every track yields its waveform for the channel.
WaveformIsSumWhereTracksDefined ==
    \A channel \in 0..(channels(comp) - 1) :
        (\A id \in 1..Len(comp.tracks) : waveform(comp.tracks[id], channel).tag = "Some")
            => IsSumOfCopies(comp, channel)

ThreeCopiesSummed ==
    /\ Len(comp.tracks) = 1 /\ Len(comp.starts[1]) = 3
    /\ channels(comp) = 2
    /\ IsSumOfCopies(comp, 0)

WellShaped(s) ==
    /\ \A c \in 0..(channels(s) - 1) :
          waveform(s, c).tag = "Some" /\ Len(waveform(s, c).v) = length(s)
    /\ \A c \in channels(s)..(channels(s) + 1) : waveform(s, c).tag = "None"

\* C6: every track has the Composition's sample rate and channel count, those of
\* the first track, which never change; a mismatching add_track and an
\* add_track_id of an unknown id are errors that change nothing.
C6_TracksAgreeErrorsChangeNothing ==
    /\ [](\A id \in 1..Len(comp.tracks) :
             /\ sample_rate(comp.tracks[id]) = sample_rate(comp)
             /\ channels(comp.tracks[id]) = channels(comp))
    /\ [][/\ comp.tracks # <<>> =>
               /\ sample_rate(comp') = sample_rate(comp)
               /\ channels(comp') = channels(comp)
          /\ \A track \in TrackPool, start \in 0..MaxStart :
               (/\ comp.tracks # <<>>
                /\ \/ sample_rate(track) # sample_rate(comp)
                   \/ channels(track) # channels(comp)
                /\ add_track(track, start))
               => (~res'.ok /\ comp' = comp)
          /\ \A id \in 0..MaxOps, start \in 0..MaxStart :
               (id >= Len(comp.tracks) /\ add_track_id(id, start))
               => (~res'.ok /\ comp' = comp)]_vars

C6_Witness ==
    /\ res.op = "add_track" /\ ~res.ok
    /\ Len(comp.tracks) = 2
    /\ channels(comp) = 2

\* C8: add_track returns the number of tracks registered before it; stored
\* tracks never change; a successful add_track_id appends the one offset to the
\* one schedule and changes nothing else but length; tracks and schedules pair
\* up and no schedule is empty.
C8_IdsStableRescheduleOnly ==
    /\ [](/\ Len(comp.tracks) = Len(comp.starts)
          /\ \A id \in 1..Len(comp.starts) : comp.starts[id] # <<>>)
    /\ [][/\ \A i \in 1..Len(comp.tracks) :
               Len(comp'.tracks) >= i /\ comp'.tracks[i] = comp.tracks[i]
          /\ \A track \in TrackPool, start \in 0..MaxStart :
               (res'.ok /\ add_track(track, start))
               => /\ res'.id = Len(comp.tracks)
                  /\ Len(comp'.tracks) = Len(comp.tracks) + 1
                  /\ comp'.tracks[res'.id + 1] = track
                  /\ comp'.starts = Append(comp.starts, <<start>>)
          /\ \A id \in 0..MaxOps, start \in 0..MaxStart :
               (res'.ok /\ add_track_id(id, start))
               => /\ comp'.tracks = comp.tracks
                  /\ comp'.starts = [comp.starts EXCEPT ![id + 1] = Append(@, start)]
                  /\ sample_rate(comp') = sample_rate(comp)
                  /\ channels(comp') = channels(comp)]_vars

C8_Witness ==
    /\ res.op = "add_track_id" /\ res.ok /\ res.id = 0
    /\ Len(comp.tracks) = 2
    /\ Len(comp.starts[1]) = 2

\* ------------------------------------------------ MultiChannel under construction
ChannelPool == Leaves \cup {Silence, Stereo, MultiChannel_new, Composition_new}

new_dual(left, right) ==
    /\ LET r == MultiChannel_new_dual(left, right) IN
       /\ mc' = IF r.ok THEN r.self ELSE mc
       /\ res' = [op |-> "new_dual", ok |-> r.ok, id |-> 0]
    /\ UNCHANGED <<comp, comp2, args, fade, delay, pc>>

add_channel(track) ==
    /\ Len(mc.channels) < MaxChannels
    /\ LET r == MultiChannel_add_channel(mc, track) IN
       /\ mc' = r.self
       /\ res' = [op |-> "add_channel", ok |-> r.ok, id |-> 0]
    /\ UNCHANGED <<comp, comp2, args, fade, delay, pc>>

NextMC ==
    \/ \E left \in ChannelPool, right \in ChannelPool : new_dual(left, right)
    \/ \E track \in ChannelPool \cup {comp} : add_channel(track)
    \/ \E start \in 0..MaxStart : add_track(mc, start)

SpecMC == Init /\ [][NextMC]_vars

\* C4: every channel stored in the MultiChannel is a sample of one channel with
\* the MultiChannel's sample rate and length.
C4_ChannelsMonoAndAgree ==
    \A i \in 1..Len(mc.channels) :
        /\ channels(mc.channels[i]) = 1
        /\ sample_rate(mc.channels[i]) = sample_rate(mc)
        /\ length(mc.channels[i]) = length(mc)

\* C5: the MultiChannel, the Composition and every sample stored in them yield a
\* waveform of length() elements for each channel below channels() and none for
\* the channels from channels() on.
C5_WaveformsDefined ==
    /\ WellShaped(mc)
    /\ WellShaped(comp)
    /\ \A i \in 1..Len(mc.channels) : WellShaped(mc.channels[i])
    /\ \A id \in 1..Len(comp.tracks) : WellShaped(comp.tracks[id])

\* ------------------------------------------------- the order of two add_track
OrderPool == TrackPool \cup {Silence}

InitOrder ==
    /\ comp = Composition_new
    /\ comp2 = Composition_new
    /\ mc = MultiChannel_new
    /\ res = NoRes
    /\ args \in {a \in [A : OrderPool, B : OrderPool, sa : 0..MaxStart, sb : 0..MaxStart] :
                   /\ sample_rate(a.A) = sample_rate(a.B)
                   /\ channels(a.A) = channels(a.B)}
    /\ fade = 0
    /\ delay = 0
    /\ pc = "order_first"

\* add_track(A, sa) on one empty Composition, add_track(B, sb) on another
OrderFirst ==
    /\ pc = "order_first"
    /\ LET ra == Composition_add_track(comp, args.A, args.sa)
           rb == Composition_add_track(comp2, args.B, args.sb)
       IN /\ comp' = ra.self
          /\ comp2' = rb.self
          /\ res' = [op |-> "add_track", ok |-> ra.ok /\ rb.ok, id |-> ra.id]
    /\ pc' = "order_second"
    /\ UNCHANGED <<mc, args, fade, delay>>

\* then add_track(B, sb) on the first and add_track(A, sa) on the second
OrderSecond ==
    /\ pc = "order_second"
    /\ LET rb == Composition_add_track(comp, args.B, args.sb)
           ra == Composition_add_track(comp2, args.A, args.sa)
       IN /\ comp' = rb.self
          /\ comp2' = ra.self
          /\ res' = [op |-> "add_track", ok |-> res.ok /\ ra.ok /\ rb.ok, id |-> rb.id]
    /\ pc' = "order_done"
    /\ UNCHANGED <<mc, args, fade, delay>>

NextOrder == OrderFirst \/ OrderSecond

SpecOrder == InitOrder /\ [][NextOrder]_vars

\* C3: A then B and B then A, for tracks of equal sample rate and channel count,
\* both succeed and give the same sample_rate(), channels(), length() and the
\* same waveform(c) for every channel c.
C3_OrderIndependent ==
    pc = "order_done" =>
        /\ res.ok
        /\ sample_rate(comp) = sample_rate(comp2)
        /\ channels(comp) = channels(comp2)
        /\ length(comp) = length(comp2)
        /\ \A c \in 0..channels(comp) : waveform(comp, c) = waveform(comp2, c)

C3_Witness ==
    /\ pc = "order_done"
    /\ args.A # args.B
    /\ args.sa < args.sb + length(args.B)
    /\ args.sb < args.sa + length(args.A)
    /\ waveform(comp, 0).tag = "Some"
    /\ \E j \in 1..length(comp) : waveform(comp, 0).v[j] > 1

\* ------------------------------------------------------------ f32 arithmetic
\* An f32 has 24 significant bits.  F32Round(n) is the f32 nearest to the integer
\* n (ties to the even significand).  The same operator rounds a value counted in
\* a power-of-two unit, rounding to 24 significant bits being independent of the
\* unit.
RECURSIVE Ulp(_)
Ulp(n) == IF n < 2^24 THEN 1 ELSE 2 * Ulp(n \div 2)

F32RoundMagnitude(n) ==
    LET u == Ulp(n)
        q == n \div u
        r == n % u
    IN IF 2 * r < u THEN q * u
       ELSE IF 2 * r > u THEN (q + 1) * u
       ELSE IF q % 2 = 0 THEN q * u ELSE (q + 1) * u

F32Round(n) == IF n >= 0 THEN F32RoundMagnitude(n) ELSE 0 - F32RoundMagnitude(0 - n)

\* ----------------------------------------------------------- LinearFadeEcho
\* `fade` and `fade_slope` are counted in units of 2^-26: 1.0 is 2^26 and the f32
\* nearest to 0.2 is 13421773 * 2^-26.
One == 2^26
Slope02 == 13421773

\* the f32 values 2^-26, 0.2, 0.25, 0.3, 0.4, 0.5 and 1.0
Slopes == {1, Slope02, 16777216, 20132660, 26843546, 33554432, One}

\* sample.scale(fade): the same sample with every value multiplied by `gain`; the
\* multiplier is carried beside the data.
scale(sample, gain) ==
    [f \in DOMAIN sample \cup {"gain"} |-> IF f = "gain" THEN gain ELSE sample[f]]

InitEcho ==
    /\ comp = Composition_new
    /\ comp2 = Composition_new
    /\ mc = MultiChannel_new
    /\ res = NoRes
    /\ args \in [sample : Leaves \cup {Stereo}, delay : 0..MaxStart, fade_slope : Slopes]
    /\ fade = 0
    /\ delay = 0
    /\ pc = "echo_start"

\* let mut echo = Composition::new(); let mut fade = 1.0 - self.fade_slope;
\* let mut delay = self.delay;
EchoStart ==
    /\ pc = "echo_start"
    /\ comp' = Composition_new
    /\ fade' = F32Round(One - args.fade_slope)
    /\ delay' = args.delay
    /\ pc' = "echo_loop"
    /\ UNCHANGED <<comp2, mc, res, args>>

\* one iteration of `while fade > 0.0`
EchoIterate ==
    /\ pc = "echo_loop"
    /\ fade > 0
    /\ Len(comp.tracks) < MaxIter
    /\ LET r == Composition_add_track(comp, scale(args.sample, fade), delay) IN
       /\ comp' = r.self
       /\ res' = [op |-> "add_track", ok |-> r.ok, id |-> r.id]
       /\ pc' = IF r.ok THEN "echo_loop" ELSE "echo_err"
       /\ fade' = IF r.ok THEN F32Round(fade - args.fade_slope) ELSE fade
       /\ delay' = IF r.ok THEN delay + args.delay ELSE delay
    /\ UNCHANGED <<comp2, mc, args>>

\* Ok(Box::new(echo))
EchoReturn ==
    /\ pc = "echo_loop"
    /\ ~(fade > 0)
    /\ pc' = "echo_done"
    /\ UNCHANGED <<comp, comp2, mc, res, args, fade, delay>>

NextEcho == EchoStart \/ EchoIterate \/ EchoReturn

SpecEcho == InitEcho /\ [][NextEcho]_vars

\* C7: with fade_slope = 0.2 the echo has k = 4 copies and the returned
\* Composition has length Len + D * 4.
C7_FourEchoesAtSlope02 ==
    (pc = "echo_done" /\ args.fade_slope = Slope02) =>
        /\ Len(comp.tracks) = 4
        /\ length(comp) = length(args.sample) + args.delay * 4

\* At fade_slope = 2^-26 the f32 difference 1.0 - fade_slope is 1.0 again: fade
\* stays at 1.0 in every iteration and the loop does not end.
FadeStuckAtTinySlope ==
    (pc = "echo_loop" /\ args.fade_slope = 1) => fade = One

\* ------------------------------------------------------------ Sample::sample
\* The value of `sample(start, end)` or the panic of one of its unwraps or of
\* the slice.
RECURSIVE CropChannels(_, _, _, _, _)
CropChannels(self, start, end, channel, out) ==
    IF channel >= channels(self) THEN Some(out)
    ELSE LET w == waveform(self, channel) IN
         IF w.tag # "Some" THEN Panic
         ELSE IF start > end \/ end > Len(w.v) THEN Panic
         ELSE LET r == MultiChannel_add_channel(
                           out, WaveForm_from(SubSeq(w.v, start + 1, end)))
              IN IF ~r.ok THEN Panic
                 ELSE CropChannels(self, start, end, channel + 1, r.self)

Sample_sample(self, start, end) == CropChannels(self, start, end, 0, MultiChannel_new)

CropPool == Leaves \cup {WaveForm_from(Ramp(MaxWaveLen + 1)), Silence, Stereo,
                         Imported, Nested, MultiChannel_new}

InitCrop ==
    /\ comp = Composition_new
    /\ comp2 = Composition_new
    /\ mc = MultiChannel_new
    /\ res = NoRes
    /\ args \in [s : CropPool, start : 0..(MaxWaveLen + 1), end : 0..(MaxWaveLen + 1)]
    /\ fade = 0
    /\ delay = 0
    /\ pc = "crop_start"

Crop ==
    /\ pc = "crop_start"
    /\ LET r == Sample_sample(args.s, args.start, args.end) IN
       /\ mc' = r.v
       /\ res' = [op |-> "sample", ok |-> r.tag = "Some", id |-> 0]
    /\ pc' = "crop_done"
    /\ UNCHANGED <<comp, comp2, args, fade, delay>>

NextCrop == Crop

SpecCrop == InitCrop /\ [][NextCrop]_vars

\* C9: for a well-formed s and 0 <= start <= end <= s.length(), s.sample(start,
\* end) has the channels and the sample rate of s, length end - start, and on
\* every channel the elements of s at [start, end).
C9_CropKeepsShape ==
    (/\ pc = "crop_done"
     /\ WellShaped(args.s)
     /\ args.start <= args.end
     /\ args.end <= length(args.s)) =>
        /\ res.ok
        /\ channels(mc) = channels(args.s)
        /\ sample_rate(mc) = sample_rate(args.s)
        /\ length(mc) = args.end - args.start
        /\ \A c \in 0..(channels(args.s) - 1) :
             waveform(mc, c) = Some(SubSeq(waveform(args.s, c).v, args.start + 1, args.end))

\* ------------------------------------------------- the wrappers in seconds
\* `(start * (self.sample_rate() as f32)) as usize` for a whole number of seconds
SecToIndex(sec, rate) ==
    LET product == F32Round(F32Round(sec) * F32Round(rate))
    IN IF product < 0 THEN 0 ELSE product

Secs == {0, 1, 2, 1523}

add_track_sec(track, sec) ==
    /\ Scheduled(comp) < MaxOps
    /\ LET start == SecToIndex(sec, sample_rate(comp))
           r == Composition_add_track(comp, track, start)
       IN /\ comp' = r.self
          /\ res' = [op |-> "add_track_sec", ok |-> r.ok, id |-> r.id]
    /\ args' = [sec |-> sec]
    /\ UNCHANGED <<comp2, mc, fade, delay, pc>>

add_track_id_sec(id, sec) ==
    /\ Scheduled(comp) < MaxOps
    /\ LET start == SecToIndex(sec, sample_rate(comp))
           r == Composition_add_track_id(comp, id, start)
       IN /\ comp' = r.self
          /\ res' = [op |-> "add_track_id_sec", ok |-> r.ok, id |-> IF r.ok THEN id ELSE 0]
    /\ args' = [sec |-> sec]
    /\ UNCHANGED <<comp2, mc, fade, delay, pc>>

InitSec ==
    /\ comp = Composition_new
    /\ comp2 = Composition_new
    /\ mc = MultiChannel_new
    /\ res = NoRes
    /\ args = [sec |-> 0]
    /\ fade = 0
    /\ delay = 0
    /\ pc = "idle"

NextSec ==
    \/ \E track \in TrackPool, sec \in Secs : add_track_sec(track, sec)
    \/ \E id \in 0..MaxOps, sec \in Secs : add_track_id_sec(id, sec)

SpecSec == InitSec /\ [][NextSec]_vars

LastOf(seq) == seq[Len(seq)]

\* C10: a successful add_track_sec(track, s) or add_track_id_sec(id, s) schedules
\* the track at exactly s * sample_rate(), the sample rate being the one the
\* Composition has after the call.
C10_SecondsTimesRate ==
    (res.op \in {"add_track_sec", "add_track_id_sec"} /\ res.ok) =>
        LastOf(comp.starts[res.id + 1]) = args.sec * sample_rate(comp)

====
